---- MODULE Spec2Model ----
(***************************************************************************)
(* Model of conversation_to_md.py: the event decoder                       *)
(* (extract_message_parts / get_text_content), the tool-call formatter     *)
(* (_format_tool_call), the block merger (format_merged_messages) and the  *)
(* document assembler (build_conversation_md).                             *)
(*                                                                         *)
(* A Python str is a sequence of tokens; "\n" is the newline token and     *)
(* " " a blank.  A Python dict is a record, d.get(k, default) is Get.      *)
(* message.content is tagged PyStr / PyList because the code branches on   *)
(* isinstance(content, str).                                               *)
(***************************************************************************)
EXTENDS Integers, Sequences, FiniteSets, TLC

VARIABLES
    pc,               \* position of the running function
    msg,              \* extract_message_parts: the argument
    parts,            \* extract_message_parts: the return value
    messages,         \* format_merged_messages: the argument `messages`
    indent,           \* format_merged_messages: the argument `indent`
    lines,            \* format_merged_messages: the local list `lines`
    result,           \* format_merged_messages: the returned string
    session_messages, \* build_conversation_md: session_info['messages']
    agents,           \* build_conversation_md: the argument `agents`
    n,                \* build_conversation_md: index of the next main message
    chunk,            \* build_conversation_md: the local list `chunk`
    doc,              \* build_conversation_md: the local list `lines`
    inlined_agents,   \* build_conversation_md: the local set `inlined_agents`
    agent_idx,        \* build_conversation_md: index in the final agents loop
    output,           \* build_conversation_md: the returned string
    start_time,       \* get_first_timestamp: the returned string
    call_name,        \* _format_tool_call: the argument `tool_name`
    call_input,       \* _format_tool_call: the argument `tool_input`
    summary           \* _format_tool_call: the returned string, or the exception raised

vars == <<pc, msg, parts, messages, indent, lines, result, session_messages,
          agents, n, chunk, doc, inlined_agents, agent_idx, output,
          start_time, call_name, call_input, summary>>

(***************************************************************************)
(* Bounds of the model.                                                    *)
(***************************************************************************)
MaxBlocks == 2
MaxMsgs == 3
MaxMain == 3
MaxAgents == 2

(***************************************************************************)
(* Python values and string primitives.                                    *)
(***************************************************************************)
None == [none |-> TRUE]

NL == "\n"

EmptyStr == <<>>

EmptyDict == [x \in {} |-> TRUE]

Get(d, k, default) == IF k \in DOMAIN d THEN d[k] ELSE default

PyStr(v) == [kind |-> "str", val |-> v]

PyList(v) == [kind |-> "list", val |-> v]

\* a value that is neither a dict, a str nor a list where one is expected
PyNone == [kind |-> "none"]

PyInt(v) == [kind |-> "int", val |-> v]

\* isinstance(x, dict): a dict is a record without the tag `kind`
IsDict(x) == "kind" \notin DOMAIN x

\* the outcome of a call: the value returned, or the exception raised
Returned(v) == [ok |-> TRUE, val |-> v]

RaisedExc(e) == [ok |-> FALSE, exc |-> e]

RECURSIVE Find(_, _, _)
\* s.find(tok, from): index of the first tok at or after from, 0 if none
Find(s, tok, from) ==
    IF from > Len(s) THEN 0
    ELSE IF s[from] = tok THEN from
    ELSE Find(s, tok, from + 1)

RECURSIVE JoinStr(_, _)
\* sep.join(strs)
JoinStr(strs, sep) ==
    IF Len(strs) = 0 THEN EmptyStr
    ELSE IF Len(strs) = 1 THEN strs[1]
    ELSE strs[1] \o <<sep>> \o JoinStr(Tail(strs), sep)

RECURSIVE SplitStr(_, _)
\* s.split(sep): never empty, ''.split(sep) = ['']
SplitStr(s, sep) ==
    LET p == Find(s, sep, 1) IN
    IF p = 0 THEN <<s>>
    ELSE <<SubSeq(s, 1, p - 1)>> \o SplitStr(SubSeq(s, p + 1, Len(s)), sep)

IsSpace(tok) == tok \in {" ", NL}

RECURSIVE LStrip(_)
LStrip(s) ==
    IF Len(s) > 0 /\ IsSpace(s[1]) THEN LStrip(Tail(s)) ELSE s

RECURSIVE RStrip(_)
RStrip(s) ==
    IF Len(s) > 0 /\ IsSpace(s[Len(s)]) THEN RStrip(SubSeq(s, 1, Len(s) - 1)) ELSE s

\* s.strip()
Strip(s) == RStrip(LStrip(s))

RECURSIVE ReSub(_, _, _, _)
\* re.sub(open + '.*?' + close, repl, s, flags=re.DOTALL): leftmost,
\* non-greedy, non-overlapping matches
ReSub(s, open, close, repl) ==
    LET p == Find(s, open, 1)
        q == IF p = 0 THEN 0 ELSE Find(s, close, p + 1)
    IN  IF q = 0 THEN s
        ELSE SubSeq(s, 1, p - 1) \o repl
             \o ReSub(SubSeq(s, q + 1, Len(s)), open, close, repl)

SEL_O == "<ide_selection>"
SEL_C == "</ide_selection>"
OF_O == "<ide_opened_file>"
OF_C == "</ide_opened_file>"
SR_O == "<system-reminder>"
SR_C == "</system-reminder>"

\* the "Clean up text" block of extract_message_parts
CleanText(text) ==
    IF text = EmptyStr THEN text
    ELSE Strip(ReSub(ReSub(ReSub(text, SEL_O, SEL_C, <<"[IDE Selection]">>),
                           OF_O, OF_C, EmptyStr),
                     SR_O, SR_C, EmptyStr))

(***************************************************************************)
(* _format_tool_call                                                       *)
(***************************************************************************)
\* the item lines cut after five items, with a '(+K more)' trailer
TodoLinesCapped(todos) ==
    LET shown == IF Len(todos) > 5 THEN 5 ELSE Len(todos) IN
    [k \in 1..shown |->
        <<"  - ", IF Get(todos[k], "status", <<"pending">>) = <<"completed">>
                  THEN "[x]" ELSE "[ ]", " ">>
        \o Get(todos[k], "content", EmptyStr)]
    \o (IF Len(todos) > 5 THEN << <<"  ", "(+", ToString(Len(todos) - 5), " more)">> >> ELSE <<>>)

RECURSIVE TodoLines(_)
\* for t in todos: lines.append(f"  - {checkbox} {content}")
TodoLines(todos) ==
    IF Len(todos) = 0 THEN <<>>
    ELSE LET t == todos[1]
             status == Get(t, "status", <<"pending">>)
             checkbox == IF status = <<"completed">> THEN "[x]" ELSE "[ ]"
             content == Get(t, "content", EmptyStr)
         IN  <<(<<"  - ", checkbox, " ">> \o content)>> \o TodoLines(Tail(todos))

FormatToolCall(tool_name, tool_input) ==
    IF tool_name \in {"Read", "Write", "Edit"}
    THEN <<"[", tool_name, "]", " ">> \o Get(tool_input, "file_path", EmptyStr)
    ELSE IF tool_name \in {"Glob", "Grep"}
    THEN <<"[", tool_name, "]", " ">> \o Get(tool_input, "pattern", EmptyStr)
    ELSE IF tool_name = "Bash"
    THEN <<"[", "Bash", "]">>
    ELSE IF tool_name = "Task"
    THEN <<"[", "Task", "]", " ">> \o Get(tool_input, "description", EmptyStr)
         \o <<" ", "(">> \o Get(tool_input, "subagent_type", EmptyStr) \o <<")">>
    ELSE IF tool_name = "TodoWrite"
    THEN LET todos == Get(tool_input, "todos", <<>>) IN
         IF todos = <<>> THEN <<"[", "TodoWrite", "]">>
         ELSE JoinStr(<< <<"[", "TodoWrite", "]">> >> \o TodoLines(todos), NL)
    ELSE IF tool_name = "WebFetch"
    THEN <<"[", "WebFetch", "]", " ">> \o Get(tool_input, "url", EmptyStr)
    ELSE IF tool_name = "WebSearch"
    THEN <<"[", "WebSearch", "]", " ">> \o Get(tool_input, "query", EmptyStr)
    ELSE <<"[", tool_name, "]">>

\* the calls of _format_tool_call that raise AttributeError: tool_input.get
\* on an argument that is no dict, in the branches that read it, and t.get
\* on a todo item that is no dict
FormatToolCallRaises(tool_name, tool_input) ==
    IF tool_name \in {"Read", "Write", "Edit", "Glob", "Grep", "Task", "WebFetch", "WebSearch"}
    THEN ~IsDict(tool_input)
    ELSE IF tool_name = "TodoWrite"
    THEN \/ ~IsDict(tool_input)
         \/ LET todos == Get(tool_input, "todos", <<>>) IN
            \E k \in 1..Len(todos) : ~IsDict(todos[k])
    ELSE FALSE

\* the outcome of _format_tool_call(tool_name, tool_input)
FormatToolCallOutcome(tool_name, tool_input) ==
    IF FormatToolCallRaises(tool_name, tool_input) THEN RaisedExc("AttributeError")
    ELSE Returned(FormatToolCall(tool_name, tool_input))

(***************************************************************************)
(* get_text_content                                                        *)
(***************************************************************************)
RECURSIVE TextParts(_)
TextParts(blocks) ==
    IF Len(blocks) = 0 THEN <<>>
    ELSE (IF Get(blocks[1], "type", "") = "text"
          THEN <<Get(blocks[1], "text", EmptyStr)>> ELSE <<>>)
         \o TextParts(Tail(blocks))

RECURSIVE ThinkingParts(_)
ThinkingParts(blocks) ==
    IF Len(blocks) = 0 THEN <<>>
    ELSE (IF Get(blocks[1], "type", "") = "thinking"
          THEN <<Get(blocks[1], "thinking", EmptyStr)>> ELSE <<>>)
         \o ThinkingParts(Tail(blocks))

RECURSIVE ToolCalls(_)
ToolCalls(blocks) ==
    IF Len(blocks) = 0 THEN <<>>
    ELSE (IF Get(blocks[1], "type", "") = "tool_use"
          THEN <<FormatToolCall(Get(blocks[1], "name", "unknown"),
                                Get(blocks[1], "input", EmptyDict))>>
          ELSE <<>>)
         \o ToolCalls(Tail(blocks))

\* returns (text, thinking, tool_calls)
GetTextContent(content_blocks) ==
    IF Len(content_blocks) = 0
    THEN [text |-> EmptyStr, thinking |-> EmptyStr, tool_calls |-> <<>>]
    ELSE [text |-> JoinStr(TextParts(content_blocks), NL),
          thinking |-> JoinStr(ThinkingParts(content_blocks), NL),
          tool_calls |-> ToolCalls(content_blocks)]

(***************************************************************************)
(* extract_message_parts                                                   *)
(***************************************************************************)
\* model.split('-')[1] if '-' in model else model
ModelShort(model) ==
    IF Find(model, "-", 1) # 0 THEN SplitStr(model, "-")[2] ELSE model

\* all() in place of any()
IsToolResultAll(content) ==
    \A k \in 1..Len(content) : Get(content[k], "type", "") = "tool_result"

\* any(isinstance(c, dict) and c.get('type') == 'tool_result' for c in content)
IsToolResult(content) ==
    \E k \in 1..Len(content) : Get(content[k], "type", "") = "tool_result"

\* content after "Handle string content"
ContentBlocks(m) ==
    LET message_data == Get(m, "message", EmptyDict)
        content == Get(message_data, "content", PyList(<<>>))
    IN  IF content.kind = "str"
        THEN << [type |-> "text", text |-> content.val] >>
        ELSE IF content.kind = "list" THEN content.val
        ELSE <<>>   \* None or 0: falsy, 'if not content_blocks' returns the empty triple

MsgRole(m) == Get(Get(m, "message", EmptyDict), "role", Get(m, "type", ""))

ExtractMessageParts(m) ==
    LET msg_type == Get(m, "type", "")
        message_data == Get(m, "message", EmptyDict)
        role == MsgRole(m)
        content == ContentBlocks(m)
        got == GetTextContent(content)
        model == Get(message_data, "model", EmptyStr)
    IN  IF msg_type \in {"queue-operation", "file-history-snapshot"} THEN None
        ELSE IF role = "user" /\ IsToolResult(content) THEN None
        ELSE IF got.text = EmptyStr /\ got.thinking = EmptyStr /\ got.tool_calls = <<>>
        THEN None
        ELSE [role |-> role,
              model |-> ModelShort(model),
              text |-> CleanText(got.text),
              thinking |-> got.thinking,
              tool_calls |-> got.tool_calls]

\* the exception a call of extract_message_parts ends with, "" when it returns:
\*   message_data.get on a message that is not a dict (line 139),
\*   'for block in content_blocks' on a non-zero number (line 109),
\*   'for c in content' on None or a number when the role is user (line 153),
\*   _format_tool_call on a tool_use block (line 122)
ExtractMessagePartsExc(m) ==
    LET msg_type == Get(m, "type", "")
        message_data == Get(m, "message", EmptyDict)
    IN  IF msg_type \in {"queue-operation", "file-history-snapshot"} THEN ""
        ELSE IF ~IsDict(message_data) THEN "AttributeError"
        ELSE LET role == Get(message_data, "role", msg_type)
                 content == Get(message_data, "content", PyList(<<>>))
             IN  IF content.kind = "str" THEN ""
                 ELSE IF content.kind = "none"
                 THEN (IF role = "user" THEN "TypeError" ELSE "")
                 ELSE IF content.kind = "int"
                 THEN (IF content.val # 0 \/ role = "user" THEN "TypeError" ELSE "")
                 ELSE IF \E k \in 1..Len(content.val) :
                            /\ Get(content.val[k], "type", "") = "tool_use"
                            /\ FormatToolCallRaises(Get(content.val[k], "name", "unknown"),
                                                    Get(content.val[k], "input", EmptyDict))
                 THEN "AttributeError"
                 ELSE ""

\* what a call of extract_message_parts ends with: the exception or the value
ExtractMessagePartsOutcome(m) ==
    IF ExtractMessagePartsExc(m) # "" THEN RaisedExc(ExtractMessagePartsExc(m))
    ELSE ExtractMessageParts(m)

(***************************************************************************)
(* format_merged_messages.  An element of `lines` is [kind, s]: s is the   *)
(* appended string, kind names the append statement that produced it.      *)
(***************************************************************************)
Line(kind, s) == [kind |-> kind, s |-> s]

BlankLine == Line("blank", EmptyStr)

\* for line in text.split('\n'): lines.append(f"{prefix}{line}")
PrefixedLines(kind, prefix, text) ==
    LET split == SplitStr(text, NL) IN
    [k \in 1..Len(split) |-> Line(kind, prefix \o split[k])]

\* the role == 'user' branch
UserLines(p, ind) ==
    << Line("user_header", ind \o <<"### User">>), BlankLine >>
    \o (IF p.text # EmptyStr
        THEN PrefixedLines("user_text", ind, p.text) \o <<BlankLine>>
        ELSE <<>>)

\* a collection that stops at once: every assistant part is a run of its own
CollectRunSingle(msgs, i, acc) == [parts_list |-> acc, next |-> i]

RECURSIVE CollectRunStopAtAbsent(_, _, _)
\* a collection that an event decoding to None brings to an end
CollectRunStopAtAbsent(msgs, i, acc) ==
    IF i > Len(msgs) THEN [parts_list |-> acc, next |-> i]
    ELSE LET next_parts == ExtractMessageParts(msgs[i]) IN
         IF next_parts = None THEN [parts_list |-> acc, next |-> i]
         ELSE IF next_parts.role # "assistant" THEN [parts_list |-> acc, next |-> i]
         ELSE CollectRunStopAtAbsent(msgs, i + 1, Append(acc, next_parts))

RECURSIVE CollectRunPastOtherRoles(_, _, _)
\* a collection that only a user part brings to an end
CollectRunPastOtherRoles(msgs, i, acc) ==
    IF i > Len(msgs) THEN [parts_list |-> acc, next |-> i]
    ELSE LET next_parts == ExtractMessageParts(msgs[i]) IN
         IF next_parts = None THEN CollectRunPastOtherRoles(msgs, i + 1, acc)
         ELSE IF next_parts.role = "user" THEN [parts_list |-> acc, next |-> i]
         ELSE IF next_parts.role # "assistant" THEN CollectRunPastOtherRoles(msgs, i + 1, acc)
         ELSE CollectRunPastOtherRoles(msgs, i + 1, Append(acc, next_parts))

RECURSIVE CollectRun(_, _, _)
\* "Collect all consecutive assistant messages": from position i on, with
\* assistant_parts_list = acc; returns the list and the position reached
CollectRun(msgs, i, acc) ==
    IF i > Len(msgs) THEN [parts_list |-> acc, next |-> i]
    ELSE LET next_parts == ExtractMessageParts(msgs[i]) IN
         IF next_parts = None THEN CollectRun(msgs, i + 1, acc)
         ELSE IF next_parts.role # "assistant" THEN [parts_list |-> acc, next |-> i]
         ELSE CollectRun(msgs, i + 1, Append(acc, next_parts))

RECURSIVE RunModelFirst(_)
\* the first non-empty model of the run in place of the last
RunModelFirst(parts_list) ==
    IF Len(parts_list) = 0 THEN EmptyStr
    ELSE IF parts_list[1].model # EmptyStr THEN parts_list[1].model
    ELSE RunModelFirst(Tail(parts_list))

RECURSIVE RunModel(_)
\* "Find the model to use (last non-empty model)"
RunModel(parts_list) ==
    IF Len(parts_list) = 0 THEN EmptyStr
    ELSE LET last == parts_list[Len(parts_list)] IN
         IF last.model # EmptyStr THEN last.model
         ELSE RunModel(SubSeq(parts_list, 1, Len(parts_list) - 1))

\* the content items of one member with the text put before the reasoning
PartItemsTextFirst(p) ==
    (IF p.text # EmptyStr THEN << [type |-> "text", content |-> p.text] >> ELSE <<>>)
    \o (IF p.thinking # EmptyStr THEN << [type |-> "thinking", content |-> p.thinking] >> ELSE <<>>)
    \o (IF p.tool_calls # <<>> THEN << [type |-> "tools", content |-> p.tool_calls] >> ELSE <<>>)

\* the content items one member of the run contributes
PartItems(p) ==
    (IF p.thinking # EmptyStr THEN << [type |-> "thinking", content |-> p.thinking] >> ELSE <<>>)
    \o (IF p.text # EmptyStr THEN << [type |-> "text", content |-> p.text] >> ELSE <<>>)
    \o (IF p.tool_calls # <<>> THEN << [type |-> "tools", content |-> p.tool_calls] >> ELSE <<>>)

RECURSIVE ContentItems(_)
\* "Build a flat list of content items"
ContentItems(parts_list) ==
    IF Len(parts_list) = 0 THEN <<>>
    ELSE PartItems(parts_list[1]) \o ContentItems(Tail(parts_list))

\* a collection that takes no further tool block: no coalescing
CollectToolsSingle(items, j, acc) == [all_tools |-> acc, next |-> j]

RECURSIVE CollectTools(_, _, _)
\* "Collect consecutive tool blocks": from position j on, with all_tools = acc
CollectTools(items, j, acc) ==
    IF j <= Len(items) /\ items[j].type = "tools"
    THEN CollectTools(items, j + 1, acc \o items[j].content)
    ELSE [all_tools |-> acc, next |-> j]

RECURSIVE ItemLines(_, _, _)
\* "Output content, merging consecutive tool blocks": the loop over j
ItemLines(items, j, ind) ==
    IF j > Len(items) THEN <<>>
    ELSE IF items[j].type = "thinking"
    THEN PrefixedLines("thinking", ind \o <<">", " ">>, items[j].content)
         \o <<BlankLine>> \o ItemLines(items, j + 1, ind)
    ELSE IF items[j].type = "text"
    THEN PrefixedLines("text", ind, items[j].content)
         \o <<BlankLine>> \o ItemLines(items, j + 1, ind)
    ELSE LET got == CollectTools(items, j + 1, items[j].content) IN
         [k \in 1..Len(got.all_tools) |->
              Line("tool", ind \o <<"-", " ">> \o got.all_tools[k])]
         \o <<BlankLine>> \o ItemLines(items, got.next, ind)

\* the role == 'assistant' branch, after the run is collected
AssistantLines(parts_list, ind) ==
    << Line("assistant_header",
            ind \o <<"### Assistant (">> \o RunModel(parts_list) \o <<")">>),
       BlankLine >>
    \o ItemLines(ContentItems(parts_list), 1, ind)

RECURSIVE FormatFrom(_, _, _)
\* the outer while loop, from position i on: the lines it appends
FormatFrom(msgs, i, ind) ==
    IF i > Len(msgs) THEN <<>>
    ELSE LET p == ExtractMessageParts(msgs[i]) IN
         IF p = None THEN FormatFrom(msgs, i + 1, ind)
         ELSE IF p.role = "user"
         THEN UserLines(p, ind) \o FormatFrom(msgs, i + 1, ind)
         ELSE IF p.role = "assistant"
         THEN LET run == CollectRun(msgs, i + 1, <<p>>) IN
              AssistantLines(run.parts_list, ind) \o FormatFrom(msgs, run.next, ind)
         ELSE FormatFrom(msgs, i + 1, ind)

\* the list `lines` when the loop ends
MergedLines(msgs, ind) == FormatFrom(msgs, 1, ind)

\* the join with a newline after the last line
JoinLinesTrailingNewline(ls) == JoinStr([k \in 1..Len(ls) |-> ls[k].s], NL) \o <<NL>>

\* '\n'.join(lines)
JoinLines(ls) == JoinStr([k \in 1..Len(ls) |-> ls[k].s], NL)

FormatMergedMessages(msgs, ind) == JoinLines(MergedLines(msgs, ind))

(***************************************************************************)
(* get_first_timestamp.  A timestamp that datetime.fromisoformat accepts   *)
(* is <<date, "T", hh:mm, rest>>; any other string is a sequence of        *)
(* characters.                                                             *)
(***************************************************************************)
IsIsoFormat(ts) == Len(ts) = 4 /\ ts[2] = "T"

TsPrefixLen == 16

RECURSIVE GetFirstTimestampUnknownOnFailure(_)
\* the except branch returning "unknown" in place of ts[:16]
GetFirstTimestampUnknownOnFailure(msgs) ==
    IF Len(msgs) = 0 THEN <<"unknown">>
    ELSE LET ts == Get(msgs[1], "timestamp", EmptyStr) IN
         IF ts # EmptyStr
         THEN IF IsIsoFormat(ts) THEN <<ts[1], " ", ts[3]>> ELSE <<"unknown">>
         ELSE GetFirstTimestampUnknownOnFailure(Tail(msgs))

RECURSIVE GetLastTimestamp(_)
\* the loop run from the end of the list: the last stamped event decides
GetLastTimestamp(msgs) ==
    IF Len(msgs) = 0 THEN <<"unknown">>
    ELSE LET ts == Get(msgs[Len(msgs)], "timestamp", EmptyStr) IN
         IF ts # EmptyStr
         THEN IF IsIsoFormat(ts) THEN <<ts[1], " ", ts[3]>>
              ELSE SubSeq(ts, 1, IF Len(ts) < TsPrefixLen THEN Len(ts) ELSE TsPrefixLen)
         ELSE GetLastTimestamp(SubSeq(msgs, 1, Len(msgs) - 1))

RECURSIVE GetFirstTimestamp(_)
\* for msg in messages: the first non-empty timestamp decides the result
GetFirstTimestamp(msgs) ==
    IF Len(msgs) = 0 THEN <<"unknown">>
    ELSE LET ts == Get(msgs[1], "timestamp", EmptyStr) IN
         IF ts # EmptyStr
         THEN IF IsIsoFormat(ts) THEN <<ts[1], " ", ts[3]>>
              ELSE SubSeq(ts, 1, IF Len(ts) < TsPrefixLen THEN Len(ts) ELSE TsPrefixLen)
         ELSE GetFirstTimestamp(Tail(msgs))

(***************************************************************************)
(* Inputs.                                                                 *)
(***************************************************************************)
\* the indent build_conversation_md passes for a sub-conversation
QuoteIndent == <<">", " ">>

SeqsUpTo(S, k) == UNION {[1..j -> S] : j \in 0..k}

ModelId == <<"claude", "-", "opus", "-", "4">>

TextVals ==
    { EmptyStr,
      <<"hi">>,
      <<"hi", NL, "yo">>,
      <<" ">>,
      <<SR_O, "x", SR_C>>,
      <<"hi", " ", SR_O, "x", NL, "y", SR_C>>,
      <<SR_O, "x", SR_C, "hi", SR_O, "y", SR_C>>,
      <<SR_O, "x">>,
      <<OF_O, "f", OF_C>>,
      <<SEL_O, "s", SEL_C>> }

TodoInput ==
    [todos |-> << [content |-> <<"t1">>, status |-> <<"completed">>],
                  [content |-> <<"t2">>, status |-> <<"pending">>] >>]

TextBlock(t) == [type |-> "text", text |-> t]

ThinkingBlock(t) == [type |-> "thinking", thinking |-> t]

ToolUse(name, input) == [type |-> "tool_use", name |-> name, input |-> input]

ToolResultBlock == [type |-> "tool_result", content |-> <<"out">>]

Blocks ==
    {TextBlock(t) : t \in TextVals}
    \cup {ThinkingBlock(<<"hm">>), ThinkingBlock(EmptyStr)}
    \cup {ToolUse("Read", [file_path |-> <<"/tmp/a">>]),
          ToolUse("Bash", [command |-> <<"ls">>]),
          ToolUse("TodoWrite", TodoInput),
          ToolResultBlock}

Contents ==
    {PyList(b) : b \in SeqsUpTo(Blocks, MaxBlocks)} \cup {PyStr(t) : t \in TextVals}

UserMsg(c) == [type |-> "user", message |-> [role |-> "user", content |-> c]]

AssistantMsg(blocks, model) ==
    [type |-> "assistant",
     message |-> [role |-> "assistant", content |-> PyList(blocks), model |-> model]]

\* events of the shapes the log format does not promise
MalformedEvents ==
    {[type |-> t, message |-> md] : t \in {"user", "assistant"}, md \in {PyStr(<<"hi">>), PyNone}}
    \cup {[type |-> t, message |-> [role |-> t, content |-> c]] :
            t \in {"user", "assistant"}, c \in {PyNone, PyInt(0), PyInt(5)}}
    \cup {[type |-> "queue-operation", message |-> PyNone]}
    \cup {AssistantMsg(<<ToolUse(name, input)>>, ModelId) :
            name \in {"Read", "Bash", "Task", "unknown"},
            input \in {PyStr(<<"/tmp/a">>), PyNone, PyInt(5)}}
    \cup {AssistantMsg(<<TextBlock(<<"hi">>), ToolUse("TodoWrite", [todos |-> <<PyStr(<<"t4">>)>>])>>,
                       ModelId)}

\* the events extract_message_parts is applied to
DecodeEvents ==
    MalformedEvents \cup
    {[type |-> "user", message |-> [role |-> "user", content |-> c]] : c \in Contents}
    \cup {[type |-> "assistant",
           message |-> [role |-> "assistant", content |-> c, model |-> ModelId]] : c \in Contents}
    \cup {[type |-> "user", message |-> [content |-> c]] : c \in Contents}
    \cup {[type |-> "queue-operation", message |-> [role |-> "user", content |-> c]] : c \in Contents}
    \cup {[type |-> "system", message |-> [content |-> c]] : c \in Contents}

ReadA == ToolUse("Read", [file_path |-> <<"/tmp/a">>])

GrepB == ToolUse("Grep", [pattern |-> <<"b">>])

\* the events of the lists format_merged_messages is applied to
MergeEvents ==
    { UserMsg(PyStr(<<"hi", NL, "yo">>)),
      UserMsg(PyStr(<<SR_O, "x", SR_C>>)),
      UserMsg(PyList(<<ToolResultBlock, TextBlock(<<"hi">>)>>)),
      AssistantMsg(<<TextBlock(<<"ok">>)>>, ModelId),
      AssistantMsg(<<ThinkingBlock(<<"hm">>)>>, EmptyStr),
      AssistantMsg(<<ReadA>>, <<"m2">>),
      AssistantMsg(<<ToolUse("Bash", [command |-> <<"ls">>]), GrepB>>, EmptyStr),
      AssistantMsg(<<ToolUse("TodoWrite", TodoInput), TextBlock(<<"done">>), ThinkingBlock(<<"so">>)>>, ModelId),
      [type |-> "system", message |-> [content |-> PyStr(<<"sys">>)]],
      [type |-> "queue-operation"] }

Indents == {EmptyStr, QuoteIndent}

Spawn(m, id) == [type |-> m.type, message |-> m.message,
                 toolUseResult |-> [agentId |-> id, description |-> <<"task">>]]

RenderedEvent == AssistantMsg(<<TextBlock(<<"ok">>)>>, ModelId)

AbsentEvent == UserMsg(PyList(<<ToolResultBlock>>))

\* the events of the main log: plain ones and ones carrying a spawn reference
MainEvents ==
    { RenderedEvent, AbsentEvent,
      Spawn(AbsentEvent, "a1"), Spawn(AbsentEvent, "a2"), Spawn(RenderedEvent, "a1") }

\* the sub-conversations: [agent_id, messages]
AgentInfos ==
    { [agent_id |-> "a1",
       messages |-> << Spawn(AssistantMsg(<<TextBlock(<<"sub">>)>>, EmptyStr), "a2") >>],
      [agent_id |-> "a1", messages |-> << Spawn(AbsentEvent, "a1") >>],
      [agent_id |-> "a2",
       messages |-> << Spawn(AssistantMsg(<<TextBlock(<<"sub">>), ReadA>>, EmptyStr), "a1") >>] }

(***************************************************************************)
(* build_conversation_md.  An element of `doc` (the function's list        *)
(* `lines`) is [kind, s, agent, at]: s is the appended string; kind names  *)
(* the append statement, agent the sub-conversation it is about, and at    *)
(* the step that appended it (0 the header, k the main event k,            *)
(* Len + 1 the flush after the walk, Len + 1 + k the k-th agent of the     *)
(* closing loop).                                                          *)
(***************************************************************************)
SessionStem == <<"conv">>

SessionId == <<"s1">>

\* the token of the backquote character
BackTick == "<backquote>"

Elem(kind, s, agent, at) == [kind |-> kind, s |-> s, agent |-> agent, at |-> at]

RECURSIVE FirstCwd(_)
\* "Get working directory from messages"
FirstCwd(msgs) ==
    IF Len(msgs) = 0 THEN EmptyStr
    ELSE IF Get(msgs[1], "cwd", EmptyStr) # EmptyStr THEN msgs[1].cwd
    ELSE FirstCwd(Tail(msgs))

\* the number of distinct identifiers in place of the length of the list
AgentCountDistinct(ags) == Cardinality({ags[k].agent_id : k \in 1..Len(ags)})

\* len(agents)
AgentCount(ags) == Len(ags)

HeaderLines(msgs, ags) ==
    LET cwd == FirstCwd(msgs) IN
    << Elem("header", <<"# Conversation: ">> \o SessionStem, "", 0),
       Elem("header", EmptyStr, "", 0),
       Elem("header", <<"**Session ID:** ", BackTick>> \o SessionId \o <<BackTick>>, "", 0),
       Elem("header", <<"**Started:** ">> \o GetFirstTimestamp(msgs), "", 0) >>
    \o (IF cwd # EmptyStr
        THEN << Elem("header", <<"**Working Directory:** ", BackTick>> \o cwd \o <<BackTick>>, "", 0) >>
        ELSE <<>>)
    \o << Elem("header", <<"**Agents spawned:** ", ToString(AgentCount(ags))>>, "", 0),
          Elem("header", EmptyStr, "", 0),
          Elem("header", <<"---">>, "", 0),
          Elem("header", EmptyStr, "", 0) >>

\* tool_result.get('agentId'); the empty identifier stands for a missing or falsy one
SpawnedAgentId(m) == Get(Get(m, "toolUseResult", EmptyDict), "agentId", "")

SpawnDescription(m) == Get(Get(m, "toolUseResult", EmptyDict), "description", EmptyStr)

AgentIds(ags) == {ags[k].agent_id : k \in 1..Len(ags)}

\* "Build a map of agent messages by agentId": a later entry overwrites
AgentMessagesById(ags) ==
    [id \in AgentIds(ags) |->
        LET last == CHOOSE k \in 1..Len(ags) :
                        /\ ags[k].agent_id = id
                        /\ \A j \in (k + 1)..Len(ags) : ags[j].agent_id # id
        IN  ags[last].messages]

\* the event lists build_conversation_md passes to format_merged_messages:
\* the chunks of the main log and the logs of the sub-conversations
FormattedLists == SeqsUpTo(MainEvents, MaxMain) \cup {a.messages : a \in AgentInfos}

\* format_merged_messages on each of these lists with each indent, computed
\* once: a function of <<messages, indent>>, held by its values (f @@ g is a
\* function with the values of f and g)
FormattedTable ==
    [ci \in FormattedLists \X Indents |-> FormatMergedMessages(ci[1], ci[2])] @@ <<>>

\* format_merged_messages(c, indent=ind) as build_conversation_md calls it
Formatted(c, ind) == FormattedTable[<<c, ind>>]

\* a flush without the test of formatted.strip()
FlushedUnchecked(c, at) == << Elem("chunk", FormatMergedMessages(c, EmptyStr), "", at) >>

\* a flush that leaves out the last event of the chunk
FlushedWithoutLast(c, at) ==
    LET formatted == FormatMergedMessages(SubSeq(c, 1, Len(c) - 1), EmptyStr) IN
    IF Strip(formatted) # EmptyStr THEN << Elem("chunk", formatted, "", at) >> ELSE <<>>

\* formatted = format_merged_messages(c); if formatted.strip(): lines.append(formatted)
Flushed(c, at) ==
    LET formatted == Formatted(c, EmptyStr) IN
    IF Strip(formatted) # EmptyStr THEN << Elem("chunk", formatted, "", at) >> ELSE <<>>

\* the condition without the test of inlined_agents
ShouldInlineAvailable(id, ags, inlined) == id \in AgentIds(ags)

\* the condition of "Inline the agent if available"
ShouldInline(id, ags, inlined) == id \in AgentIds(ags) /\ id \notin inlined

\* a sub-section that also expands the first spawn reference found in the
\* log of agent id
InlineSectionNested(m, id, ags, at) ==
    LET log == AgentMessagesById(ags)[id]
        agent_formatted == FormatMergedMessages(log, QuoteIndent)
        nested == {SpawnedAgentId(log[k]) : k \in 1..Len(log)} \cap (AgentIds(ags) \ {id})
        sub(c) ==
            << Elem("agent_start", <<">", " ", "**[Agent: ", c, "]**", " ">>, c, at),
               Elem("agent_body", FormatMergedMessages(AgentMessagesById(ags)[c], QuoteIndent), c, at),
               Elem("agent_end", <<">", " ", "**[Agent: ", c, "]**", " ", "ended">>, c, at) >>
    IN  << Elem("rule", <<">", " ", "---">>, id, at),
           Elem("agent_start", <<">", " ", "**[Agent: ", id, "]**", " ">> \o SpawnDescription(m), id, at),
           Elem("quote", <<">">>, id, at) >>
        \o (IF Strip(agent_formatted) # EmptyStr
            THEN << Elem("agent_body", agent_formatted, id, at) >> ELSE <<>>)
        \o (IF nested # {} THEN sub(CHOOSE c \in nested : TRUE) ELSE <<>>)
        \o << Elem("agent_end", <<">", " ", "**[Agent: ", id, "]**", " ", "ended">>, id, at),
              Elem("rule", <<">", " ", "---">>, id, at),
              Elem("blank", EmptyStr, id, at) >>

\* the sub-section appended for spawn event m of agent id
InlineSection(m, id, ags, at) ==
    LET agent_formatted == Formatted(AgentMessagesById(ags)[id], QuoteIndent) IN
    << Elem("rule", <<">", " ", "---">>, id, at),
       Elem("agent_start", <<">", " ", "**[Agent: ", id, "]**", " ">> \o SpawnDescription(m), id, at),
       Elem("quote", <<">">>, id, at) >>
    \o (IF Strip(agent_formatted) # EmptyStr
        THEN << Elem("agent_body", agent_formatted, id, at) >> ELSE <<>>)
    \o << Elem("agent_end", <<">", " ", "**[Agent: ", id, "]**", " ", "ended">>, id, at),
          Elem("rule", <<">", " ", "---">>, id, at),
          Elem("blank", EmptyStr, id, at) >>

\* the closing section rendered without the block-quote prefix
NotInlinedSectionNoIndent(ags, k, at) ==
    LET agent_formatted == FormatMergedMessages(ags[k].messages, EmptyStr) IN
    << Elem("heading", <<"## Agent: ", ags[k].agent_id, " (not inlined)">>, ags[k].agent_id, at),
       Elem("blank", EmptyStr, ags[k].agent_id, at) >>
    \o (IF Strip(agent_formatted) # EmptyStr
        THEN << Elem("appendix_body", agent_formatted, ags[k].agent_id, at) >> ELSE <<>>)

\* what the closing loop appends for agents[k]
NotInlinedSection(ags, k, at) ==
    LET agent_formatted == Formatted(ags[k].messages, QuoteIndent) IN
    << Elem("heading", <<"## Agent: ", ags[k].agent_id, " (not inlined)">>, ags[k].agent_id, at),
       Elem("blank", EmptyStr, ags[k].agent_id, at) >>
    \o (IF Strip(agent_formatted) # EmptyStr
        THEN << Elem("appendix_body", agent_formatted, ags[k].agent_id, at) >> ELSE <<>>)

\* '\n'.join(lines) of build_conversation_md
JoinDoc(d) == JoinStr([k \in 1..Len(d) |-> d[k].s], NL)

(***************************************************************************)
(* extract_message_parts applied to one event.                             *)
(***************************************************************************)
InitDecode ==
    /\ pc = "decode"
    /\ msg \in DecodeEvents
    /\ parts = None
    /\ messages = <<>> /\ indent = EmptyStr /\ lines = <<>> /\ result = EmptyStr
    /\ session_messages = <<>> /\ agents = <<>> /\ n = 0 /\ chunk = <<>>
    /\ doc = <<>> /\ inlined_agents = {} /\ agent_idx = 0 /\ output = EmptyStr
    /\ start_time = EmptyStr /\ call_name = "" /\ call_input = EmptyDict /\ summary = EmptyStr

Decode ==
    /\ pc = "decode"
    /\ parts' = ExtractMessagePartsOutcome(msg)
    /\ pc' = "decoded"
    /\ UNCHANGED <<start_time, call_name, call_input, summary>>
    /\ UNCHANGED <<msg, messages, indent, lines, result, session_messages, agents,
                   n, chunk, doc, inlined_agents, agent_idx, output>>

NextDecode == Decode

SpecDecode == InitDecode /\ [][NextDecode]_vars

(***************************************************************************)
(* format_merged_messages applied to one list of events.                   *)
(***************************************************************************)
InitMerge ==
    /\ pc = "format"
    /\ messages \in SeqsUpTo(MergeEvents, MaxMsgs)
    /\ indent \in Indents
    /\ lines = <<>> /\ result = EmptyStr
    /\ msg = None /\ parts = None
    /\ session_messages = <<>> /\ agents = <<>> /\ n = 0 /\ chunk = <<>>
    /\ doc = <<>> /\ inlined_agents = {} /\ agent_idx = 0 /\ output = EmptyStr
    /\ start_time = EmptyStr /\ call_name = "" /\ call_input = EmptyDict /\ summary = EmptyStr

Format ==
    /\ pc = "format"
    /\ lines' = MergedLines(messages, indent)
    /\ result' = FormatMergedMessages(messages, indent)
    /\ pc' = "formatted"
    /\ UNCHANGED <<start_time, call_name, call_input, summary>>
    /\ UNCHANGED <<msg, parts, messages, indent, session_messages, agents,
                   n, chunk, doc, inlined_agents, agent_idx, output>>

NextMerge == Format

SpecMerge == InitMerge /\ [][NextMerge]_vars

(***************************************************************************)
(* get_first_timestamp applied to one list of events.                      *)
(***************************************************************************)
MaxStamped == 3

TsEarly == <<"2024-01-01", "T", "09:30", ":00Z">>

TsLate == <<"2024-01-02", "T", "10:00", ":00Z">>

\* 17 characters that datetime.fromisoformat rejects
TsBadLong == <<"n", "o", "t", "-", "a", "-", "t", "i", "m", "e", "s", "t", "a", "m", "p", "!", "?">>

TsBadShort == <<"s", "o", "o", "n">>

\* an event with the given timestamp
Stamped(ts) == [type |-> "user", timestamp |-> ts]

\* the events get_first_timestamp is applied to: without the key, with an
\* empty timestamp, with a timestamp that parses and with one that does not
TsEvents ==
    {[type |-> "user"]} \cup {Stamped(ts) : ts \in {EmptyStr, TsEarly, TsLate, TsBadLong, TsBadShort}}

InitTs ==
    /\ pc = "ts"
    /\ messages \in SeqsUpTo(TsEvents, MaxStamped)
    /\ start_time = EmptyStr
    /\ indent = EmptyStr /\ lines = <<>> /\ result = EmptyStr
    /\ msg = None /\ parts = None
    /\ session_messages = <<>> /\ agents = <<>> /\ n = 0 /\ chunk = <<>>
    /\ doc = <<>> /\ inlined_agents = {} /\ agent_idx = 0 /\ output = EmptyStr
    /\ call_name = "" /\ call_input = EmptyDict /\ summary = EmptyStr

GetTimestamp ==
    /\ pc = "ts"
    /\ start_time' = GetFirstTimestamp(messages)
    /\ pc' = "ts_done"
    /\ UNCHANGED <<msg, parts, messages, indent, lines, result, session_messages, agents,
                   n, chunk, doc, inlined_agents, agent_idx, output,
                   call_name, call_input, summary>>

NextTs == GetTimestamp

SpecTs == InitTs /\ [][NextTs]_vars

(***************************************************************************)
(* _format_tool_call applied to one tool name and one argument mapping.    *)
(***************************************************************************)
MaxTodos == 6

KnownTools ==
    {"Read", "Write", "Edit", "Glob", "Grep", "Bash", "Task", "TodoWrite", "WebFetch", "WebSearch"}

\* the known names, names that differ from a known one by case, other names
ToolNames == KnownTools \cup {"read", "bash", "todowrite", "NotebookEdit", "unknown"}

\* argument mappings with and without the key the branch reads
SimpleInputs ==
    { EmptyDict,
      [file_path |-> <<"/tmp/a">>],
      [pattern |-> <<"b">>],
      [command |-> <<"rm", " ", "-rf">>],
      [description |-> <<"task">>, subagent_type |-> <<"Explore">>],
      [description |-> <<"task">>],
      [url |-> <<"http://x">>],
      [query |-> <<"q">>],
      [todos |-> <<>>] }

\* todo items: completed, pending, without status and content, and one
\* that is a str, not a dict
TodoItems ==
    { [content |-> <<"t1">>, status |-> <<"completed">>],
      [content |-> <<"t2">>, status |-> <<"pending">>],
      [activeForm |-> <<"t3">>],
      PyStr(<<"t4">>) }

TodoInputs == {[todos |-> ts] : ts \in SeqsUpTo(TodoItems, MaxTodos)}

\* the calls: every name with every simple mapping, TodoWrite with every todo list
Calls == (ToolNames \X SimpleInputs) \cup ({"TodoWrite"} \X TodoInputs)

InitTool ==
    /\ pc = "call"
    /\ \E c \in Calls : call_name = c[1] /\ call_input = c[2]
    /\ summary = EmptyStr
    /\ start_time = EmptyStr
    /\ messages = <<>> /\ indent = EmptyStr /\ lines = <<>> /\ result = EmptyStr
    /\ msg = None /\ parts = None
    /\ session_messages = <<>> /\ agents = <<>> /\ n = 0 /\ chunk = <<>>
    /\ doc = <<>> /\ inlined_agents = {} /\ agent_idx = 0 /\ output = EmptyStr

FormatCall ==
    /\ pc = "call"
    /\ summary' = FormatToolCallOutcome(call_name, call_input)
    /\ pc' = "called"
    /\ UNCHANGED <<msg, parts, messages, indent, lines, result, session_messages, agents,
                   n, chunk, doc, inlined_agents, agent_idx, output,
                   start_time, call_name, call_input>>

NextTool == FormatCall

SpecTool == InitTool /\ [][NextTool]_vars

(***************************************************************************)
(* build_conversation_md, one step per loop iteration.                     *)
(***************************************************************************)
Init ==
    /\ pc = "start"
    /\ session_messages \in SeqsUpTo(MainEvents, MaxMain)
    /\ agents \in SeqsUpTo(AgentInfos, MaxAgents)
    /\ n = 0 /\ chunk = <<>> /\ doc = <<>> /\ inlined_agents = {}
    /\ agent_idx = 0 /\ output = EmptyStr
    /\ start_time = EmptyStr /\ call_name = "" /\ call_input = EmptyDict /\ summary = EmptyStr
    /\ msg = None /\ parts = None
    /\ messages = <<>> /\ indent = EmptyStr /\ lines = <<>> /\ result = EmptyStr

\* the header, the agent map and the empty chunk
Start ==
    /\ pc = "start"
    /\ doc' = HeaderLines(session_messages, agents)
    /\ inlined_agents' = {}
    /\ chunk' = <<>>
    /\ n' = 1
    /\ pc' = "walk"
    /\ UNCHANGED <<start_time, call_name, call_input, summary>>
    /\ UNCHANGED <<msg, parts, messages, indent, lines, result, session_messages,
                   agents, agent_idx, output>>

\* a main event without a spawn reference
WalkAppend ==
    /\ pc = "walk" /\ n <= Len(session_messages)
    /\ SpawnedAgentId(session_messages[n]) = ""
    /\ chunk' = Append(chunk, session_messages[n])
    /\ n' = n + 1
    /\ UNCHANGED <<start_time, call_name, call_input, summary>>
    /\ UNCHANGED <<pc, msg, parts, messages, indent, lines, result, session_messages,
                   agents, doc, inlined_agents, agent_idx, output>>

\* the sub-section appended before the flushed chunk
WalkSpawnInlineFirst ==
    /\ pc = "walk" /\ n <= Len(session_messages)
    /\ LET m == session_messages[n]
           id == SpawnedAgentId(m)
       IN  /\ id # ""
           /\ ShouldInline(id, agents, inlined_agents)
           /\ doc' = doc \o InlineSection(m, id, agents, n) \o Flushed(Append(chunk, m), n)
           /\ inlined_agents' = inlined_agents \cup {id}
    /\ chunk' = <<>>
    /\ n' = n + 1
    /\ UNCHANGED <<start_time, call_name, call_input, summary>>
    /\ UNCHANGED <<pc, msg, parts, messages, indent, lines, result, session_messages,
                   agents, agent_idx, output>>

\* a spawn reference to an available agent not inlined yet
WalkSpawnInline ==
    /\ pc = "walk" /\ n <= Len(session_messages)
    /\ LET m == session_messages[n]
           id == SpawnedAgentId(m)
       IN  /\ id # ""
           /\ ShouldInline(id, agents, inlined_agents)
           /\ doc' = doc \o Flushed(Append(chunk, m), n) \o InlineSection(m, id, agents, n)
           /\ inlined_agents' = inlined_agents \cup {id}
    /\ chunk' = <<>>
    /\ n' = n + 1
    /\ UNCHANGED <<start_time, call_name, call_input, summary>>
    /\ UNCHANGED <<pc, msg, parts, messages, indent, lines, result, session_messages,
                   agents, agent_idx, output>>

\* a spawn reference that is not expanded and does not flush the chunk
WalkSpawnSkipNoFlush ==
    /\ pc = "walk" /\ n <= Len(session_messages)
    /\ LET m == session_messages[n]
           id == SpawnedAgentId(m)
       IN  /\ id # ""
           /\ ~ShouldInline(id, agents, inlined_agents)
           /\ chunk' = Append(chunk, m)
    /\ n' = n + 1
    /\ UNCHANGED <<start_time, call_name, call_input, summary>>
    /\ UNCHANGED <<pc, msg, parts, messages, indent, lines, result, session_messages,
                   agents, doc, inlined_agents, agent_idx, output>>

\* a walk that does not move past a spawn reference that is not expanded
WalkSpawnSkipAgain ==
    /\ pc = "walk" /\ n <= Len(session_messages)
    /\ LET id == SpawnedAgentId(session_messages[n])
       IN  id # "" /\ ~ShouldInline(id, agents, inlined_agents)
    /\ chunk' = <<>>
    /\ UNCHANGED <<start_time, call_name, call_input, summary>>
    /\ UNCHANGED <<pc, msg, parts, messages, indent, lines, result, session_messages,
                   agents, n, doc, inlined_agents, agent_idx, output>>

\* a spawn reference that is not expanded
WalkSpawnSkip ==
    /\ pc = "walk" /\ n <= Len(session_messages)
    /\ LET m == session_messages[n]
           id == SpawnedAgentId(m)
       IN  /\ id # ""
           /\ ~ShouldInline(id, agents, inlined_agents)
           /\ doc' = doc \o Flushed(Append(chunk, m), n)
    /\ chunk' = <<>>
    /\ n' = n + 1
    /\ UNCHANGED <<start_time, call_name, call_input, summary>>
    /\ UNCHANGED <<pc, msg, parts, messages, indent, lines, result, session_messages,
                   agents, inlined_agents, agent_idx, output>>

\* "Format any remaining messages after the last agent spawn"
WalkEnd ==
    /\ pc = "walk" /\ n > Len(session_messages)
    /\ doc' = doc \o (IF chunk # <<>> THEN Flushed(chunk, n) ELSE <<>>)
    /\ agent_idx' = 1
    /\ pc' = "agents"
    /\ UNCHANGED <<start_time, call_name, call_input, summary>>
    /\ UNCHANGED <<msg, parts, messages, indent, lines, result, session_messages,
                   agents, n, chunk, inlined_agents, output>>

\* a closing loop that appends every agent, inlined or not
AgentAppendAll ==
    /\ pc = "agents" /\ agent_idx <= Len(agents)
    /\ doc' = doc \o NotInlinedSection(agents, agent_idx, Len(session_messages) + 1 + agent_idx)
    /\ agent_idx' = agent_idx + 1
    /\ UNCHANGED <<start_time, call_name, call_input, summary>>
    /\ UNCHANGED <<pc, msg, parts, messages, indent, lines, result, session_messages,
                   agents, n, chunk, inlined_agents, output>>

\* "Add any agents that weren't inlined": an agent not inlined
AgentAppend ==
    /\ pc = "agents" /\ agent_idx <= Len(agents)
    /\ agents[agent_idx].agent_id \notin inlined_agents
    /\ doc' = doc \o NotInlinedSection(agents, agent_idx, Len(session_messages) + 1 + agent_idx)
    /\ agent_idx' = agent_idx + 1
    /\ UNCHANGED <<start_time, call_name, call_input, summary>>
    /\ UNCHANGED <<pc, msg, parts, messages, indent, lines, result, session_messages,
                   agents, n, chunk, inlined_agents, output>>

\* the closing loop passing over an inlined agent
AgentSkip ==
    /\ pc = "agents" /\ agent_idx <= Len(agents)
    /\ agents[agent_idx].agent_id \in inlined_agents
    /\ agent_idx' = agent_idx + 1
    /\ UNCHANGED <<start_time, call_name, call_input, summary>>
    /\ UNCHANGED <<pc, msg, parts, messages, indent, lines, result, session_messages,
                   agents, n, chunk, doc, inlined_agents, output>>

Return ==
    /\ pc = "agents" /\ agent_idx > Len(agents)
    /\ output' = JoinDoc(doc)
    /\ pc' = "done"
    /\ UNCHANGED <<start_time, call_name, call_input, summary>>
    /\ UNCHANGED <<msg, parts, messages, indent, lines, result, session_messages,
                   agents, n, chunk, doc, inlined_agents, agent_idx>>

Next ==
    \/ Start
    \/ WalkAppend
    \/ WalkSpawnInline
    \/ WalkSpawnSkip
    \/ WalkEnd
    \/ AgentAppend
    \/ AgentSkip
    \/ Return

Spec == Init /\ [][Next]_vars

\* the function is executed without pause: a statement that can be executed
\* is executed
FairSpec == Spec /\ WF_vars(Next)

(***************************************************************************)
(* Properties of format_merged_messages (SpecMerge).                       *)
(***************************************************************************)
RECURSIVE DecodedParts(_)
\* the parts of the decodable events of a list, in order
DecodedParts(msgs) ==
    IF Len(msgs) = 0 THEN <<>>
    ELSE (IF ExtractMessageParts(msgs[1]) = None THEN <<>>
          ELSE <<ExtractMessageParts(msgs[1])>>)
         \o DecodedParts(Tail(msgs))

IsPrefix(p, s) == Len(p) <= Len(s) /\ SubSeq(s, 1, Len(p)) = p

\* a line of the output that is a '### User' or '### Assistant (...)' header
IsHeaderStr(l, ind) ==
    \/ l = ind \o <<"### User">>
    \/ IsPrefix(ind \o <<"### Assistant (">>, l)

OutputLines == SplitStr(result, NL)

HeaderCount == Cardinality({k \in 1..Len(OutputLines) : IsHeaderStr(OutputLines[k], indent)})

\* the maximal contiguous same-role runs of a sequence of parts
SameRoleRuns(ps) == {k \in 1..Len(ps) : k = 1 \/ ps[k - 1].role # ps[k].role}

UserParts(ps) == {k \in 1..Len(ps) : ps[k].role = "user"}

\* the maximal contiguous runs of assistant parts
AssistantRuns(ps) ==
    {k \in 1..Len(ps) : ps[k].role = "assistant" /\ (k = 1 \/ ps[k - 1].role # "assistant")}

\* every part is a user or an assistant part, the roles of a MessagePart
UserAssistantOnly(ps) == \A k \in 1..Len(ps) : ps[k].role \in {"user", "assistant"}

\* C1 as stated: for a sequence of user and assistant parts, the number of
\* header lines in the output equals the number of maximal contiguous
\* same-role runs (k consecutive user parts give one header).
C1_HeadersEqualSameRoleRuns ==
    pc = "formatted" /\ UserAssistantOnly(DecodedParts(messages)) =>
        HeaderCount = Cardinality(SameRoleRuns(DecodedParts(messages)))

\* C1 amended: the number of header lines equals the number of user parts
\* plus the number of maximal contiguous runs of assistant parts; every user
\* part gets a header of its own and a part of another role gets none.
C1_HeadersEqualUsersPlusAssistantRuns ==
    pc = "formatted" =>
        LET ps == DecodedParts(messages) IN
        HeaderCount = Cardinality(UserParts(ps)) + Cardinality(AssistantRuns(ps))

\* two adjacent user parts, each under a header of its own, then an assistant part
C1_Witness ==
    /\ pc = "formatted"
    /\ LET ps == DecodedParts(messages) IN
       /\ Len(ps) = 3
       /\ ps[1].role = "user" /\ ps[2].role = "user" /\ ps[3].role = "assistant"
       /\ HeaderCount = 3

IsContentKind(k) == k \in {"thinking", "text", "tool"}

KindRank(k) == IF k = "thinking" THEN 1 ELSE IF k = "text" THEN 2 ELSE 3

IsHeaderKind(k) == k \in {"user_header", "assistant_header"}

\* positions a < b of `lines` that lie in the same run's output
SameRunOutput(a, b) ==
    /\ a < b
    /\ IsContentKind(lines[a].kind) /\ IsContentKind(lines[b].kind)
    /\ \A c \in a..b : ~IsHeaderKind(lines[c].kind)

\* C2 as stated: in the output of one assistant run every reasoning line
\* precedes every plain-text line, which precedes every tool item.
C2_GroupedByKindAcrossRun ==
    pc = "formatted" =>
        \A a, b \in 1..Len(lines) :
            SameRunOutput(a, b) => KindRank(lines[a].kind) <= KindRank(lines[b].kind)

\* the kinds of the blocks of `lines`, a block being a maximal sequence of
\* lines between blank separator lines
RECURSIVE BlockKinds(_, _)
BlockKinds(ls, prev) ==
    IF Len(ls) = 0 THEN <<>>
    ELSE IF ls[1].kind = "blank" THEN BlockKinds(Tail(ls), "blank")
    ELSE IF ls[1].kind = prev THEN BlockKinds(Tail(ls), prev)
    ELSE <<ls[1].kind>> \o BlockKinds(Tail(ls), ls[1].kind)

\* the content kinds one member contributes: reasoning, then text, then tools
MemberKinds(p) ==
    (IF p.thinking # EmptyStr THEN <<"thinking">> ELSE <<>>)
    \o (IF p.text # EmptyStr THEN <<"text">> ELSE <<>>)
    \o (IF p.tool_calls # <<>> THEN <<"tool">> ELSE <<>>)

\* acc followed by ks, an initial tool group joining a tool group that ends acc
JoinKinds(acc, ks) ==
    IF Len(acc) > 0 /\ Len(ks) > 0 /\ acc[Len(acc)] = "tool" /\ ks[1] = "tool"
    THEN acc \o Tail(ks) ELSE acc \o ks

RECURSIVE ExpectedKinds(_, _, _)
\* the block kinds expected for parts ps[k..], member by member in arrival order
ExpectedKinds(ps, k, acc) ==
    IF k > Len(ps) THEN acc
    ELSE IF ps[k].role = "user"
    THEN ExpectedKinds(ps, k + 1,
             acc \o <<"user_header">>
                 \o (IF ps[k].text # EmptyStr THEN <<"user_text">> ELSE <<>>))
    ELSE IF ps[k].role = "assistant"
    THEN ExpectedKinds(ps, k + 1,
             JoinKinds(IF k = 1 \/ ps[k - 1].role # "assistant"
                       THEN acc \o <<"assistant_header">> ELSE acc,
                       MemberKinds(ps[k])))
    ELSE ExpectedKinds(ps, k + 1, acc)

\* C2 amended: the members of an assistant run are rendered one after the
\* other in arrival order; within one member reasoning comes before text and
\* text before tool items; only tool groups that end up adjacent are joined
\* into one list.  Kinds are not regrouped across the members of a run.
C2_MemberOrderKept ==
    pc = "formatted" =>
        BlockKinds(lines, "blank") = ExpectedKinds(DecodedParts(messages), 1, <<>>)

\* a run in which a text line of one member precedes a later member's reasoning
C2_Witness ==
    /\ pc = "formatted"
    /\ \E a, b \in 1..Len(lines) :
          /\ SameRunOutput(a, b)
          /\ lines[a].kind = "text" /\ lines[b].kind = "thinking"

ToolOnly(p) ==
    p.role = "assistant" /\ p.thinking = EmptyStr /\ p.text = EmptyStr /\ p.tool_calls # <<>>

RECURSIVE AllSummaries(_)
\* the tool summaries of a sequence of parts, in arrival order
AllSummaries(ps) ==
    IF Len(ps) = 0 THEN <<>> ELSE ps[1].tool_calls \o AllSummaries(Tail(ps))

\* C3: consecutive assistant parts that carry only tool summaries give one
\* header, a blank line, then one uninterrupted list of the summaries in
\* arrival order, closed by a single blank line.
C3_ToolGroupsCoalesced ==
    pc = "formatted" =>
        LET ps == DecodedParts(messages)
            sums == AllSummaries(ps)
        IN  (Len(ps) >= 2 /\ \A k \in 1..Len(ps) : ToolOnly(ps[k])) =>
                /\ Len(lines) = Len(sums) + 3
                /\ IsPrefix(indent \o <<"### Assistant (">>, lines[1].s)
                /\ lines[2].s = EmptyStr
                /\ \A k \in 1..Len(sums) : lines[k + 2].s = indent \o <<"-", " ">> \o sums[k]
                /\ lines[Len(lines)].s = EmptyStr
                /\ HeaderCount = 1

\* assistant(tools=[Read]) followed by assistant(tools=[Bash, Grep])
C3_Witness ==
    /\ pc = "formatted"
    /\ LET ps == DecodedParts(messages) IN
       /\ Len(ps) = 2 /\ ToolOnly(ps[1]) /\ ToolOnly(ps[2])
       /\ Len(ps[1].tool_calls) = 1 /\ Len(ps[2].tool_calls) = 2
    /\ Len(lines) = 6

\* C9: an empty message list gives the empty string, whatever the indent.
C9_EmptyListEmptyString ==
    pc = "formatted" /\ messages = <<>> => result = EmptyStr /\ lines = <<>>

C9_Witness == pc = "formatted" /\ messages = <<>> /\ indent = QuoteIndent /\ result = EmptyStr

\* the events of the list that do not decode to None, in order
Decodable(msgs) == SelectSeq(msgs, LAMBDA e : ExtractMessageParts(e) # None)

\* C21: the output is the output for the list with every event that decodes
\* to None removed; such an event between two assistant events does not end
\* the assistant run.
C21_AbsentEventsChangeNothing ==
    pc = "formatted" => result = FormatMergedMessages(Decodable(messages), indent)

\* a tool-result event of the user between two assistant events: one header
C21_Witness ==
    /\ pc = "formatted"
    /\ messages = << AssistantMsg(<<TextBlock(<<"ok">>)>>, ModelId),
                     UserMsg(PyList(<<ToolResultBlock, TextBlock(<<"hi">>)>>)),
                     AssistantMsg(<<ThinkingBlock(<<"hm">>)>>, EmptyStr) >>
    /\ Len(Decodable(messages)) = 2
    /\ HeaderCount = 1

\* the positions of the decodable parts of a role other than user, assistant
OtherRoleAt(msgs) ==
    {k \in 1..Len(msgs) :
        /\ ExtractMessageParts(msgs[k]) # None
        /\ ExtractMessageParts(msgs[k]).role \notin {"user", "assistant"}}

\* C25: a decodable part of another role adds no line of its own and ends
\* the assistant run: the lines are those of the events before it followed
\* by those of the events after it, each rendered on its own.
C25_OtherRoleSplitsOutput ==
    pc = "formatted" =>
        \A k \in OtherRoleAt(messages) :
            lines = MergedLines(SubSeq(messages, 1, k - 1), indent)
                    \o MergedLines(SubSeq(messages, k + 1, Len(messages)), indent)

\* tool calls, a system event, tool calls: two headers and two tool groups
C25_Witness ==
    /\ pc = "formatted"
    /\ messages = << AssistantMsg(<<ReadA>>, <<"m2">>),
                     [type |-> "system", message |-> [content |-> PyStr(<<"sys">>)]],
                     AssistantMsg(<<ToolUse("Bash", [command |-> <<"ls">>]), GrepB>>, EmptyStr) >>
    /\ OtherRoleAt(messages) = {2}
    /\ HeaderCount = 2
    /\ [k \in 1..Len(lines) |-> lines[k].kind]
          = <<"assistant_header", "blank", "tool", "blank",
              "assistant_header", "blank", "tool", "tool", "blank">>

\* C18 as stated: every line of the block format_merged_messages returns
\* starts with the indent prefix, blank separator lines and the continuation
\* lines of a multi-line tool summary included.
C18_EveryLineIndented ==
    pc = "formatted" /\ result # EmptyStr =>
        \A k \in 1..Len(OutputLines) : IsPrefix(indent, OutputLines[k])

(***************************************************************************)
(* Properties of extract_message_parts (SpecDecode).                       *)
(***************************************************************************)
\* C7 as stated: a returned part never has text, thinking and tool_calls all
\* empty.
C7_PartNeverEmpty ==
    pc = "decoded" /\ "exc" \notin DOMAIN parts /\ parts # None =>
        ~(parts.text = EmptyStr /\ parts.thinking = EmptyStr /\ parts.tool_calls = <<>>)

\* the raw content of the event holds a tool_result segment
HasToolResultSegment(m) ==
    LET content == Get(Get(m, "message", EmptyDict), "content", PyList(<<>>)) IN
    /\ content.kind = "list"
    /\ \E k \in 1..Len(content.val) : content.val[k].type = "tool_result"

HasTextSegment(m) ==
    LET content == Get(Get(m, "message", EmptyDict), "content", PyList(<<>>)) IN
    /\ content.kind = "list"
    /\ \E k \in 1..Len(content.val) :
          content.val[k].type = "text" /\ content.val[k].text = <<"hi">>

\* C8: an event of role user holding a tool_result segment decodes to None,
\* also when it holds text.
C8_UserToolResultAbsent ==
    pc = "decoded" /\ MsgRole(msg) = "user" /\ HasToolResultSegment(msg) => parts = None

C8_Witness ==
    /\ pc = "decoded" /\ Get(msg, "type", "") = "user" /\ MsgRole(msg) = "user"
    /\ HasToolResultSegment(msg) /\ HasTextSegment(msg)
    /\ parts = None

\* C17 as stated: for an event whose tool arguments are not a mapping, whose
\* content is neither a string nor a list, or whose message field is not a
\* mapping, extract_message_parts returns (absent, or a part) and never ends
\* with an exception.
C17_MalformedNeverRaises ==
    pc = "decoded" /\ msg \in MalformedEvents => "exc" \notin DOMAIN parts

(***************************************************************************)
(* Properties of build_conversation_md (Spec).                             *)
(***************************************************************************)
\* the main events that carry a spawn reference to id
Refs(id) == {k \in 1..Len(session_messages) : SpawnedAgentId(session_messages[k]) = id}

FirstRef(id) == CHOOSE k \in Refs(id) : \A j \in Refs(id) : k <= j

\* the last main event before k that carries a spawn reference, 0 if none
LastSpawnBefore(k) ==
    LET before == {j \in 1..(k - 1) : SpawnedAgentId(session_messages[j]) # ""} IN
    IF before = {} THEN 0 ELSE CHOOSE j \in before : \A i \in before : i <= j

\* the strings appended to doc at step k, in order
StrsAt(k) ==
    LET es == SelectSeq(doc, LAMBDA e : e.at = k) IN [j \in 1..Len(es) |-> es[j].s]

DocumentLines == SplitStr(output, NL)

MarkerPrefix(id) == <<">", " ", "**[Agent: ", id, "]**", " ">>

EndMarker(id) == MarkerPrefix(id) \o <<"ended">>

\* the lines of the document that are start or end markers of agent id
MarkerLines(id) ==
    {k \in 1..Len(DocumentLines) : IsPrefix(MarkerPrefix(id), DocumentLines[k])}

EndMarkerLines(id) == {k \in 1..Len(DocumentLines) : DocumentLines[k] = EndMarker(id)}

\* C4: an available sub-conversation referenced by several main events is
\* inlined once, at the first reference; a later reference appends nothing
\* but the flushed chunk, which holds nothing of the sub-conversation.
C4_InlinedOnceAtFirstReference ==
    pc = "done" =>
        \A id \in AgentIds(agents) :
            Refs(id) # {} =>
                /\ Cardinality(MarkerLines(id)) = 2
                /\ Cardinality(EndMarkerLines(id)) = 1
                /\ \A k \in 1..Len(doc) :
                      doc[k].agent = id => doc[k].at = FirstRef(id)
                /\ \A r \in Refs(id) \ {FirstRef(id)} :
                      \A k \in 1..Len(doc) :
                          doc[k].at = r =>
                              doc[k].kind = "chunk" /\ Find(doc[k].s, "sub", 1) = 0

\* agent a1 is available, renders text and is referenced by two main events
C4_Witness ==
    /\ pc = "done"
    /\ Cardinality(Refs("a1")) >= 2
    /\ "a1" \in AgentIds(agents)
    /\ \E k \in 1..Len(doc) : doc[k].kind = "agent_body" /\ doc[k].agent = "a1"
    /\ \E r \in Refs("a1") \ {FirstRef("a1")} : StrsAt(r) # <<>>

\* the identifiers a main-log spawn reference names
ReferencedIds == {SpawnedAgentId(session_messages[k]) : k \in 1..Len(session_messages)} \ {""}

RECURSIVE ExpectedAppendix(_)
\* the strings expected after the main-log output, for agents[k..]
ExpectedAppendix(k) ==
    IF k > Len(agents) THEN <<>>
    ELSE (IF agents[k].agent_id \in ReferencedIds THEN <<>>
          ELSE LET body == FormatMergedMessages(agents[k].messages, QuoteIndent) IN
               << <<"## Agent: ", agents[k].agent_id, " (not inlined)">>, EmptyStr >>
               \o (IF body # EmptyStr THEN <<body>> ELSE <<>>))
         \o ExpectedAppendix(k + 1)

\* the position in doc after the output of the main log
MainEnd == Cardinality({k \in 1..Len(doc) : doc[k].at <= Len(session_messages) + 1})

NotExpanded(k) ==
    LET id == SpawnedAgentId(session_messages[k]) IN
    id # "" /\ (id \notin AgentIds(agents) \/ k # FirstRef(id))

\* some event of the list is rendered by format_merged_messages
HasRenderable(msgs) ==
    \E j \in 1..Len(msgs) :
        /\ ExtractMessageParts(msgs[j]) # None
        /\ ExtractMessageParts(msgs[j]).role \in {"user", "assistant"}

\* C6: at a spawn reference to an unavailable or already inlined
\* sub-conversation nothing is appended but the flushed chunk, which runs
\* from the event after the previous spawn reference to the spawn event
\* itself, and the pending chunk restarts empty.
C6_UnexpandedReferenceFlushesOnly ==
    /\ pc = "walk" =>
          chunk = SubSeq(session_messages, LastSpawnBefore(n) + 1, n - 1)
    /\ pc = "done" =>
          \A k \in 1..Len(session_messages) :
              NotExpanded(k) =>
                  LET seg == SubSeq(session_messages, LastSpawnBefore(k) + 1, k) IN
                  StrsAt(k) = IF HasRenderable(seg)
                              THEN <<FormatMergedMessages(seg, EmptyStr)>> ELSE <<>>

\* a rendered event with a reference to a missing agent, after an earlier
\* reference and followed by a plain rendered event
C6_Witness ==
    /\ pc = "done"
    /\ Len(session_messages) = 3
    /\ "a1" \notin AgentIds(agents)
    /\ SpawnedAgentId(session_messages[1]) # ""
    /\ session_messages[2] = Spawn(RenderedEvent, "a1")
    /\ session_messages[3] = RenderedEvent
    /\ StrsAt(2) = <<FormatMergedMessages(<<session_messages[2]>>, EmptyStr)>>
    /\ StrsAt(4) = <<FormatMergedMessages(<<session_messages[3]>>, EmptyStr)>>

\* the header and the rule of a conversation without timestamps, working
\* directory and agents
BareHeader ==
    JoinStr(<< <<"# Conversation: ", "conv">>,
               EmptyStr,
               <<"**Session ID:** ", BackTick, "s1", BackTick>>,
               <<"**Started:** ", "unknown">>,
               <<"**Agents spawned:** ", "0">>,
               EmptyStr,
               <<"---">>,
               EmptyStr >>, NL)

\* C10: with no sub-conversation and no event that decodes to a part, the
\* document is the metadata header followed by the horizontal rule.
C10_HeaderAndRuleOnly ==
    pc = "done" /\ agents = <<>>
    /\ (\A k \in 1..Len(session_messages) : ExtractMessageParts(session_messages[k]) = None)
    => output = BareHeader

\* three absent events, the second one carrying a spawn reference
C10_Witness ==
    /\ pc = "done" /\ agents = <<>>
    /\ Len(session_messages) = 3
    /\ \A k \in 1..3 : ExtractMessageParts(session_messages[k]) = None
    /\ SpawnedAgentId(session_messages[2]) = "a1"
    /\ output = BareHeader

(***************************************************************************)
(* The model tag of an assistant run (SpecMerge).                          *)
(***************************************************************************)
\* the last member of the assistant run of ps that starts at a
RunEnd(ps, a) ==
    CHOOSE b \in a..Len(ps) :
        /\ \A k \in a..b : ps[k].role = "assistant"
        /\ b = Len(ps) \/ ps[b + 1].role # "assistant"

\* the members of the run starting at a that carry a non-empty model tag
TaggedMembers(ps, a) == {k \in a..RunEnd(ps, a) : ps[k].model # EmptyStr}

\* the tag of the latest tagged member, empty when no member is tagged
ExpectedTag(ps, a) ==
    LET tagged == TaggedMembers(ps, a) IN
    IF tagged = {} THEN EmptyStr
    ELSE ps[CHOOSE k \in tagged : \A j \in tagged : j <= k].model

\* the first members of the assistant runs of ps, in order
RunStartSeq(ps) ==
    SelectSeq([k \in 1..Len(ps) |-> k], LAMBDA k : k \in AssistantRuns(ps))

AssistantHeaders == SelectSeq(lines, LAMBDA l : l.kind = "assistant_header")

\* C11: the header of every assistant run is '### Assistant (<tag>)' with
\* <tag> the last non-empty model tag among the members of the run in
\* arrival order, and empty when no member has a tag.
C11_HeaderTagIsLastNonEmpty ==
    pc = "formatted" =>
        LET ps == DecodedParts(messages)
            starts == RunStartSeq(ps)
        IN  /\ Len(AssistantHeaders) = Len(starts)
            /\ \A j \in 1..Len(starts) :
                  AssistantHeaders[j].s =
                      indent \o <<"### Assistant (">> \o ExpectedTag(ps, starts[j]) \o <<")">>

\* a run of three members tagged m2, opus and untagged: the header shows opus
C11_Witness ==
    /\ pc = "formatted"
    /\ LET ps == DecodedParts(messages) IN
       /\ Len(ps) = 3
       /\ \A k \in 1..3 : ps[k].role = "assistant"
       /\ ps[1].model = <<"m2">> /\ ps[2].model = <<"opus">> /\ ps[3].model = EmptyStr
    /\ lines[1].s = indent \o <<"### Assistant (", "opus", ")">>

(***************************************************************************)
(* Properties of get_first_timestamp (SpecTs).                             *)
(***************************************************************************)
TimestampOf(m) == IF "timestamp" \in DOMAIN m THEN m.timestamp ELSE EmptyStr

\* the events of the list that carry a non-empty timestamp
StampedIdx(msgs) == {k \in 1..Len(msgs) : TimestampOf(msgs[k]) # EmptyStr}

\* the first event in log order that carries a non-empty timestamp
FirstStamped(msgs) == CHOOSE k \in StampedIdx(msgs) : \A j \in StampedIdx(msgs) : k <= j

\* the chronological order of the timestamps that parse
TsRank(ts) == IF ts = TsEarly THEN 1 ELSE 2

\* an event whose timestamp is the minimum over the stamped events
EarliestStamped(msgs) ==
    CHOOSE k \in StampedIdx(msgs) :
        \A j \in StampedIdx(msgs) : TsRank(msgs[k].timestamp) <= TsRank(msgs[j].timestamp)

\* '%Y-%m-%d %H:%M' of a timestamp that parses
MinuteFormat(ts) == <<ts[1], " ", ts[3]>>

\* C12 as stated: when every timestamp parses, the start time is the minimum
\* over all stamped events, to the minute.
C12_StartIsEarliest ==
    pc = "ts_done" /\ StampedIdx(messages) # {}
    /\ (\A k \in StampedIdx(messages) : IsIsoFormat(messages[k].timestamp))
    => start_time = MinuteFormat(messages[EarliestStamped(messages)].timestamp)

\* C12 amended: the start time is the timestamp of the first event in log
\* order that carries a non-empty timestamp, to the minute when it parses,
\* whatever later events carry.
C12_StartIsFirstInLogOrder ==
    pc = "ts_done" /\ StampedIdx(messages) # {}
    /\ IsIsoFormat(messages[FirstStamped(messages)].timestamp)
    => start_time = MinuteFormat(messages[FirstStamped(messages)].timestamp)

\* an unstamped event, then the later timestamp, then the earlier one
C12_Witness ==
    /\ pc = "ts_done"
    /\ messages = << [type |-> "user"], Stamped(TsLate), Stamped(TsEarly) >>
    /\ start_time = <<"2024-01-02", " ", "10:00">>

\* C13 as stated: the result is 'unknown' when no event is stamped and when
\* the selected timestamp does not parse.
C13_UnknownOnMissingOrUnparsable ==
    pc = "ts_done"
    /\ (StampedIdx(messages) = {}
        \/ ~IsIsoFormat(messages[FirstStamped(messages)].timestamp))
    => start_time = <<"unknown">>

\* ts[:16]
Prefix16(ts) == [k \in 1..(IF Len(ts) < 16 THEN Len(ts) ELSE 16) |-> ts[k]]

\* C13 amended: the result is 'unknown' when no event carries a non-empty
\* timestamp; when the first non-empty timestamp does not parse the result
\* is its first 16 characters.
C13_UnknownOnlyWhenMissing ==
    pc = "ts_done" =>
        /\ StampedIdx(messages) = {} => start_time = <<"unknown">>
        /\ StampedIdx(messages) # {}
           /\ ~IsIsoFormat(messages[FirstStamped(messages)].timestamp)
           => start_time = Prefix16(messages[FirstStamped(messages)].timestamp)

\* an empty timestamp, then one of 17 characters that does not parse
C13_Witness ==
    /\ pc = "ts_done"
    /\ Len(messages) = 3
    /\ messages[1] = Stamped(EmptyStr) /\ messages[2] = Stamped(TsBadLong)
    /\ messages[3] = Stamped(TsEarly)
    /\ Len(start_time) = 16 /\ start_time = SubSeq(TsBadLong, 1, 16)

(***************************************************************************)
(* The agent count of the header (Spec).                                   *)
(***************************************************************************)
\* the lines of the document that start with '**Agents spawned:** '
SpawnedCountLines ==
    SelectSeq(DocumentLines, LAMBDA l : IsPrefix(<<"**Agents spawned:** ">>, l))

\* C14 as stated: the count shown is the number of distinct identifiers
\* among the supplied sub-conversations.
C14_CountIsDistinctIds ==
    pc = "done" =>
        SpawnedCountLines = << <<"**Agents spawned:** ", ToString(Cardinality(AgentIds(agents)))>> >>

\* C14 amended: the count shown is the number of sub-conversation logs
\* supplied; two logs sharing one identifier are counted twice.
C14_CountIsNumberOfLogs ==
    pc = "done" =>
        SpawnedCountLines = << <<"**Agents spawned:** ", ToString(Len(agents))>> >>

\* two logs supplied under the identifier a1: the header shows 2
C14_Witness ==
    /\ pc = "done"
    /\ Len(agents) = 2
    /\ agents[1].agent_id = "a1" /\ agents[2].agent_id = "a1"
    /\ SpawnedCountLines = << <<"**Agents spawned:** ", "2">> >>

(***************************************************************************)
(* Properties of _format_tool_call (SpecTool).                             *)
(***************************************************************************)
\* the call is a TodoWrite call with a non-empty list of todo dicts
TodoCall ==
    /\ call_name = "TodoWrite"
    /\ "todos" \in DOMAIN call_input
    /\ Len(call_input.todos) > 0
    /\ \A k \in 1..Len(call_input.todos) : IsDict(call_input.todos[k])

SummaryLines == SplitStr(summary.val, NL)

\* the entry of one todo item: '[x]' iff its status is completed, then its text
ItemLine(t) ==
    <<"  - ",
      IF "status" \in DOMAIN t /\ t.status = <<"completed">> THEN "[x]" ELSE "[ ]",
      " ">>
    \o (IF "content" \in DOMAIN t THEN t.content ELSE EmptyStr)

\* the line holds '(+K more)'
IsMoreTrailer(l, k) ==
    \E p \in 1..(Len(l) - 2) : SubSeq(l, p, p + 2) = <<"(+", ToString(k), " more)">>

\* C15 as stated: at most the first 5 items are rendered and, with more than
\* 5 items, a final '(+K more)' line follows, K the number of items left out.
C15_AtMostFiveItemsAndTrailer ==
    pc = "called" /\ TodoCall =>
        LET todos == call_input.todos
            shown == IF Len(todos) > 5 THEN 5 ELSE Len(todos)
        IN  /\ summary.ok
            /\ Len(SummaryLines) = 1 + shown + (IF Len(todos) > 5 THEN 1 ELSE 0)
            /\ \A k \in 1..shown : SummaryLines[k + 1] = ItemLine(todos[k])
            /\ Len(todos) > 5 =>
                  IsMoreTrailer(SummaryLines[Len(SummaryLines)], Len(todos) - 5)

\* C15 amended: every item of the list is rendered, in order, one entry per
\* item after the '[TodoWrite]' line; nothing is cut and no trailer is added.
C15_EveryItemRendered ==
    pc = "called" /\ TodoCall =>
        LET todos == call_input.todos IN
        /\ summary.ok
        /\ SummaryLines = << <<"[", "TodoWrite", "]">> >>
                             \o [k \in 1..Len(todos) |-> ItemLine(todos[k])]

\* six items: six entries and no trailer
C15_Witness ==
    /\ pc = "called" /\ TodoCall
    /\ Len(call_input.todos) = 6
    /\ call_input.todos[1] = [content |-> <<"t1">>, status |-> <<"completed">>]
    /\ call_input.todos[6] = [content |-> <<"t2">>, status |-> <<"pending">>]
    /\ Len(SummaryLines) = 7
    /\ SummaryLines[2] = <<"  - ", "[x]", " ", "t1">>
    /\ SummaryLines[7] = <<"  - ", "[ ]", " ", "t2">>

\* C16 as stated: for every name and every argument mapping the call returns
\* a string; for a name outside the known set the string is '[<name>]', and
\* for Bash it is '[Bash]' whatever the arguments.
C16_TotalAndDefaults ==
    pc = "called" /\ IsDict(call_input) =>
        /\ summary.ok
        /\ call_name \notin KnownTools => summary.val = <<"[", call_name, "]">>
        /\ call_name = "Bash" => summary.val = <<"[", "Bash", "]">>

(***************************************************************************)
(* Spawn references inside a sub-conversation log (Spec, FairSpec).        *)
(***************************************************************************)
\* the pairs <<k, c>>: the log agents[k] holds an event with a spawn
\* reference to another available sub-conversation c
NestedRefs ==
    {kc \in (1..Len(agents)) \X AgentIds(agents) :
        /\ kc[2] # agents[kc[1]].agent_id
        /\ \E e \in 1..Len(agents[kc[1]].messages) :
              SpawnedAgentId(agents[kc[1]].messages[e]) = kc[2]}

\* the string holds the marker of sub-conversation c
MentionsAgent(str, c) ==
    \E q \in 1..(Len(str) - 1) : str[q] \in {"**[Agent: ", "## Agent: "} /\ str[q + 1] = c

\* the index of the start and of the end marker of the inlined section of p
SectionStart(p) == CHOOSE j \in 1..Len(doc) : doc[j].kind = "agent_start" /\ doc[j].agent = p

SectionEnd(p) == CHOOSE j \in 1..Len(doc) : doc[j].kind = "agent_end" /\ doc[j].agent = p

\* C19 as stated: a spawn reference inside the log of a sub-conversation to
\* another available sub-conversation is expanded at that point, inside the
\* section of the parent, and the nested one is not left for the end.
C19_NestedInlinedInParent ==
    pc = "done" =>
        \A kc \in NestedRefs :
            LET p == agents[kc[1]].agent_id
                c == kc[2]
            IN  p \in inlined_agents /\ AgentMessagesById(agents)[p] = agents[kc[1]].messages =>
                    \E j \in (SectionStart(p) + 1)..(SectionEnd(p) - 1) :
                        MentionsAgent(doc[j].s, c)

\* C19 amended: the reference is not expanded. The rendering of the parent
\* holds no marker of the nested sub-conversation, a start marker of the
\* nested one appears only at a main event that references it, and when no
\* main event references it, it is appended at the end as not inlined.
C19_NestedReferenceNotExpanded ==
    pc = "done" =>
        \A kc \in NestedRefs :
            LET p == agents[kc[1]].agent_id
                c == kc[2]
            IN  /\ \A j \in 1..Len(doc) :
                      doc[j].agent = p /\ doc[j].kind \in {"agent_body", "appendix_body"} =>
                          ~MentionsAgent(doc[j].s, c)
                /\ \A j \in 1..Len(doc) :
                      doc[j].agent = c /\ doc[j].kind = "agent_start" => doc[j].at \in Refs(c)
                /\ Refs(c) = {} =>
                      \E j \in 1..Len(doc) : doc[j].agent = c /\ doc[j].kind = "heading"

\* a1 is inlined from the main log, its log references a2, and a2 is appended
\* at the end
C19_Witness ==
    /\ pc = "done"
    /\ Len(agents) = 2 /\ agents[1].agent_id = "a1" /\ agents[2].agent_id = "a2"
    /\ <<1, "a2">> \in NestedRefs
    /\ inlined_agents = {"a1"}
    /\ \E j \in 1..Len(doc) : doc[j].agent = "a1" /\ doc[j].kind = "agent_body"
    /\ doc[Len(doc) - 2].kind = "heading" /\ doc[Len(doc) - 2].agent = "a2"
    /\ doc[Len(doc)].kind = "appendix_body"

\* the number of elements of the document of the given kinds for identifier id
CountOf(kinds, id) ==
    Cardinality({j \in 1..Len(doc) : doc[j].kind \in kinds /\ doc[j].agent = id})

\* the number of supplied logs with identifier id
LogsOf(id) == Cardinality({k \in 1..Len(agents) : agents[k].agent_id = id})

\* C20: build_conversation_md reaches its return on every input, also when
\* a log references its own identifier or the logs reference each other, and
\* in the returned document every sub-conversation is rendered a bounded
\* number of times: inlined at most once, and rendered at most once per
\* supplied log.
C20_TerminatesBounded ==
    <>(/\ pc = "done"
       /\ \A id \in AgentIds(agents) :
             /\ CountOf({"agent_start"}, id) <= 1
             /\ CountOf({"agent_start", "heading"}, id) <= LogsOf(id))

\* the logs of a1 and a2 reference each other, the main log references a1,
\* and the function has returned
C20_Witness ==
    /\ pc = "done"
    /\ Len(agents) = 2
    /\ <<1, agents[2].agent_id>> \in NestedRefs /\ <<2, agents[1].agent_id>> \in NestedRefs
    /\ inlined_agents # {}
    /\ output # EmptyStr

(***************************************************************************)
(* The order of the sections of the document (Spec).                       *)
(***************************************************************************)
\* the steps at which the pending chunk is flushed: the main events with a
\* spawn reference, and the step after the walk
FlushPoints ==
    {k \in 1..Len(session_messages) : SpawnedAgentId(session_messages[k]) # ""}
    \cup {Len(session_messages) + 1}

\* the main events flushed at step k
Seg(k) ==
    SubSeq(session_messages, LastSpawnBefore(k) + 1,
           IF k > Len(session_messages) THEN Len(session_messages) ELSE k)

\* the spawn reference of main event k is expanded
Expanded(k) ==
    /\ k <= Len(session_messages)
    /\ SpawnedAgentId(session_messages[k]) \in AgentIds(agents)
    /\ k = FirstRef(SpawnedAgentId(session_messages[k]))

\* the kinds of the elements appended at step k, in order, the body of a
\* sub-section left out
KindsAt(k) ==
    LET es == SelectSeq(doc, LAMBDA e : e.at = k /\ e.kind # "agent_body")
    IN  [j \in 1..Len(es) |-> es[j].kind]

\* C22: the output of the main events appears in log order; the sub-section
\* of a spawn reference follows at once the flushed chunk that ends with the
\* spawning event and precedes the output of every later main event; the
\* document is the concatenation of the sections in the order produced.
C22_SectionsInOrder ==
    pc = "done" =>
        /\ \A i, j \in 1..Len(doc) : i < j => doc[i].at <= doc[j].at
        /\ \A j \in 1..Len(doc) :
              doc[j].at \in 1..(Len(session_messages) + 1) => doc[j].at \in FlushPoints
        /\ \A k \in FlushPoints :
              /\ KindsAt(k) =
                    (IF HasRenderable(Seg(k)) THEN <<"chunk">> ELSE <<>>)
                    \o (IF Expanded(k)
                        THEN <<"rule", "agent_start", "quote", "agent_end", "rule", "blank">>
                        ELSE <<>>)
              /\ HasRenderable(Seg(k)) =>
                    StrsAt(k)[1] = FormatMergedMessages(Seg(k), EmptyStr)
        /\ output = JoinStr([j \in 1..Len(doc) |-> doc[j].s], NL)

\* a rendered event, a rendered spawn event of available a1, a rendered event
C22_Witness ==
    /\ pc = "done"
    /\ session_messages = <<RenderedEvent, Spawn(RenderedEvent, "a1"), RenderedEvent>>
    /\ Len(agents) = 1 /\ agents[1].agent_id = "a1"
    /\ KindsAt(1) = <<>>
    /\ \E j \in 1..Len(doc) : doc[j].kind = "agent_body" /\ doc[j].at = 2
    /\ KindsAt(2) = <<"chunk", "rule", "agent_start", "quote", "agent_end", "rule", "blank">>
    /\ KindsAt(4) = <<"chunk">>

\* the identifiers of the supplied logs are pairwise distinct
DistinctIds == \A i, j \in 1..Len(agents) : i # j => agents[i].agent_id # agents[j].agent_id

\* C23: with pairwise distinct identifiers every supplied sub-conversation
\* has exactly one section in the document: the inlined one at the first
\* main event that references it, or else the appended one after the walk.
C23_EachLogRenderedOnce ==
    pc = "done" /\ DistinctIds =>
        \A k \in 1..Len(agents) :
            LET id == agents[k].agent_id
                starts == {j \in 1..Len(doc) : doc[j].kind = "agent_start" /\ doc[j].agent = id}
                heads == {j \in 1..Len(doc) : doc[j].kind = "heading" /\ doc[j].agent = id}
            IN  /\ Cardinality(starts) + Cardinality(heads) = 1
                /\ Refs(id) # {} => \A j \in starts \cup heads :
                                        doc[j].kind = "agent_start" /\ doc[j].at = FirstRef(id)
                /\ Refs(id) = {} => \A j \in starts \cup heads :
                                        doc[j].kind = "heading"
                                        /\ doc[j].at = Len(session_messages) + 1 + k

\* a1 referenced twice and inlined, a2 not referenced and appended
C23_Witness ==
    /\ pc = "done" /\ DistinctIds
    /\ Len(agents) = 2 /\ agents[1].agent_id = "a2" /\ agents[2].agent_id = "a1"
    /\ Cardinality(Refs("a1")) = 2 /\ Refs("a2") = {}
    /\ CountOf({"agent_start"}, "a1") = 1 /\ CountOf({"heading"}, "a1") = 0
    /\ CountOf({"agent_start"}, "a2") = 0 /\ CountOf({"heading"}, "a2") = 1

\* the step of the flush that follows the one at main event k
NextFlush(k) ==
    CHOOSE f \in FlushPoints : f > k /\ \A g \in FlushPoints : g > k => f <= g

\* the number of '### Assistant (...)' header lines of a string
AssistantHeadersIn(str) ==
    LET ls == SplitStr(str, NL) IN
    Cardinality({j \in 1..Len(ls) : IsPrefix(<<"### Assistant (">>, ls[j])})

\* C24: the chunk is flushed at every main event with a spawn reference,
\* expanded or not; when the last part rendered before the flush and the
\* first part rendered after it are assistant parts, they stand in two
\* chunks, each under an assistant header of its own.
C24_RunEndsAtSpawnEvent ==
    /\ pc = "walk" /\ n > 1 /\ SpawnedAgentId(session_messages[n - 1]) # "" => chunk = <<>>
    /\ pc = "done" =>
          \A k \in 1..Len(session_messages) :
              LET before == DecodedParts(Seg(k))
                  after == DecodedParts(Seg(NextFlush(k)))
              IN  /\ SpawnedAgentId(session_messages[k]) # ""
                  /\ before # <<>> /\ before[Len(before)].role = "assistant"
                  /\ after # <<>> /\ after[1].role = "assistant"
                  => /\ Len(StrsAt(k)) >= 1 /\ Len(StrsAt(NextFlush(k))) >= 1
                     /\ AssistantHeadersIn(StrsAt(k)[1]) = Cardinality(AssistantRuns(before))
                     /\ AssistantHeadersIn(StrsAt(NextFlush(k))[1])
                           = Cardinality(AssistantRuns(after))
                     /\ IsPrefix(<<"### Assistant (">>, StrsAt(NextFlush(k))[1])

\* an assistant event, a spawn event whose sub-conversation is not supplied,
\* an assistant event: two chunks, two headers, no sub-section
C24_Witness ==
    /\ pc = "done"
    /\ session_messages = <<RenderedEvent, Spawn(AbsentEvent, "a2"), RenderedEvent>>
    /\ agents = <<>>
    /\ KindsAt(2) = <<"chunk">> /\ KindsAt(4) = <<"chunk">>
    /\ AssistantHeadersIn(StrsAt(2)[1]) = 1 /\ AssistantHeadersIn(StrsAt(4)[1]) = 1
    /\ AssistantHeadersIn(output) = 2

====
